---- MODULE Spec2Model ----
(***************************************************************************)
(* Model of the customer-service chatbot: CustomerServiceBot (chatbot.py)  *)
(* and the HTTP handlers in front of it (main.py).                         *)
(*                                                                         *)
(* Scheduling.  The handlers are coroutines of one asyncio event loop: the *)
(* code of a handler between two awaits runs atomically with respect to    *)
(* the other handlers.  The only await that suspends is                    *)
(* asyncio.to_thread(chain, ...): the chain call (load the memory,         *)
(* retrieve, generate, save_context) runs on a worker thread, concurrently *)
(* with the event loop and with the worker threads of the other calls.     *)
(* save_context adds the HumanMessage and then the AIMessage to            *)
(* memory.chat_memory.messages, one list append each; no lock is taken     *)
(* anywhere in chatbot.py, so the two appends are separate steps.          *)
(***************************************************************************)
EXTENDS Integers, Sequences, FiniteSets, TLC

\* Number of POST /chat requests a behaviour may issue.
MaxCalls == 2

Calls == 1..MaxCalls

\* Session ids that clients make up themselves.
ClientIds == {"A", "B"}

\* request.session_id when the field is absent (Python None).
NoSessionId == "<None>"

\* str(uuid.uuid4()) of the c-th request: fresh, never a client-made id.
uuid4(c) == "uuid-" \o ToString(c)

UuidIds == {uuid4(c) : c \in Calls}

SessionIds == ClientIds \cup UuidIds

\* Message texts of the requests and reply texts of the model.
Messages == {"m1", "m2"}

Answers == {"a1"}

\* Documents the retriever may return with an answer.
Retrieved == {<<>>, <<"doc1">>}

\* Optional[List[...]] values: None, or a list.
PyNone == [tag |-> "None"]

PyList(xs) == [tag |-> "list", items |-> xs]

\* settings.support_email
support_email == "support@yourcompany.com"

VARIABLES
    vector_store,         \* self.vector_store is set (TRUE) or None (FALSE)
    memories,             \* self.memories: session id -> memory object
    conversation_chains,  \* self.conversation_chains: session id -> chain object
    messages,             \* memory object -> its chat_memory.messages
    issued,               \* number of POST /chat requests received so far
    pc,                   \* where each chat call is
    request,              \* the ChatRequest of each call
    session_id,           \* the session id each call runs under
    chain,                \* the chain object each call holds
    result,               \* what the chain call of each call produced
    ret,                  \* what bot.chat gave back to its caller
    lifecycle,            \* history variable: what clears have done to each session
    settings,             \* main.settings: the options the front door reads
    request_counts,       \* main.request_counts: client address -> timestamps
    now,                  \* the last reading of datetime.utcnow(), in seconds
    accepted,             \* history variable: the requests the limiter counted and let through
    last,                 \* history variable: the last operation in front of the bot and its outcome
    knowledge_base,       \* the documents directory: file name -> what the file is
    vectorstore           \* what build_vector_store gave back

\* The state of the CustomerServiceBot and of the chat calls in progress.
botVars == <<vector_store, memories, conversation_chains, messages, issued, pc,
             request, session_id, chain, result, ret, lifecycle>>

\* The state in front of the bot: the settings, the limiter, the clock.
frontVars == <<settings, request_counts, now, accepted, last>>

\* The state of the knowledge-base builder (build_knowledge_base.py).
builderVars == <<knowledge_base, vectorstore>>

vars == <<botVars, frontVars, builderVars>>

(***************************************************************************)
(* Pure helpers                                                            *)
(***************************************************************************)

\* Python truthiness of request.session_id: None and "" are both falsy.
Truthy(v) == v # NoSessionId /\ v # ""

\* Faulty variant of resolve_session_id: the id the client sent is ignored.
resolve_session_id_always_new(given, c) == uuid4(c)

\* main.chat: session_id = request.session_id or str(uuid.uuid4())

resolve_session_id(given, c) == IF Truthy(given) THEN given ELSE uuid4(c)

\* dict[key] = value, and del dict[key]
Put(d, k, v) == (k :> v) @@ d

Del(d, k) == [x \in DOMAIN d \ {k} |-> d[x]]

\* The fixed fallback text, as the pieces the f-string joins.
get_error_response ==
    << "I apologize, but I'm experiencing technical difficulties. ",
       "Please try again in a moment, or contact our support team at ",
       support_email,
       " for immediate assistance." >>

Contains(text, piece) == \E i \in DOMAIN text : text[i] = piece

\* chat: source_info = [{content, metadata} for doc in sources] if sources else None
source_info(docs) ==
    IF docs # <<>>
    THEN PyList([i \in DOMAIN docs |-> [content |-> docs[i], metadata |-> "meta"]])
    ELSE PyNone

\* HumanMessage / AIMessage as stored in chat_memory.messages.  "turn" is a
\* history field: the call that wrote the entry.
HumanMessage(text, c) == [type |-> "human", content |-> text, turn |-> c]

AIMessage(text, c) == [type |-> "ai", content |-> text, turn |-> c]

\* get_conversation_history: [] for an unknown id, else role/content of each
\* HumanMessage and AIMessage of the memory stored under the id.
get_conversation_history(sid) ==
    IF sid \notin DOMAIN memories
    THEN <<>>
    ELSE LET msgs == messages[memories[sid]]
         IN  [i \in DOMAIN msgs |->
                [role |-> IF msgs[i].type = "human" THEN "user" ELSE "assistant",
                 content |-> msgs[i].content]]

\* settings.max_conversation_history: 10 by default, read from the
\* environment; a small setting keeps the cap within reach.
max_conversation_history == 1

\* memory.load_memory_variables, by which the chain of session sid fills
\* chat_history in the prompt of its next turn: ConversationBufferMemory
\* gives its whole buffer (no code reads max_conversation_history).
load_memory_variables(sid) ==
    IF sid \in DOMAIN memories THEN messages[memories[sid]] ELSE <<>>

\* Faulty variant of get_or_create_memory: the membership test is missing,
\* every call allocates a memory.
get_or_create_memory_always_new(sid, c) ==
    [memories |-> Put(memories, sid, c), messages |-> Put(messages, c, <<>>)]

\* _get_or_create_memory, run by call c: the memories and the memory objects
\* afterwards.  A new memory object is named after the call that allocates it.
get_or_create_memory(sid, c) ==
    IF sid \notin DOMAIN memories
    THEN [memories |-> Put(memories, sid, c), messages |-> Put(messages, c, <<>>)]
    ELSE [memories |-> memories, messages |-> messages]

NoChain == [id |-> 0, memory |-> 0, retrieval |-> FALSE]

\* _get_or_create_memory: ConversationBufferMemory(memory_key="chat_history")
memory_key == "chat_history"

\* ConversationChain(llm=..., memory=memory) keeps its default prompt, whose
\* input variables are history and input, and its constructor raises
\* ValueError unless these are the memory's variable and the input key.
ConversationChainAccepts(key) == {key, "input"} = {"history", "input"}

\* Faulty variant of get_or_create_chain: a new chain is built on a memory of
\* its own (named after the call), not on the memory of _get_or_create_memory.
get_or_create_chain_own_memory(sid, c, built) ==
    IF sid \in DOMAIN conversation_chains
    THEN [memories |-> memories, messages |-> messages,
          conversation_chains |-> conversation_chains,
          raised |-> FALSE, chain |-> conversation_chains[sid]]
    ELSE LET m  == get_or_create_memory(sid, c)
             ch == [id |-> c, memory |-> c, retrieval |-> vector_store]
         IN  IF built /\ (vector_store \/ ConversationChainAccepts(memory_key))
             THEN [memories |-> m.memories, messages |-> Put(m.messages, c, <<>>),
                   conversation_chains |-> Put(conversation_chains, sid, ch),
                   raised |-> FALSE, chain |-> ch]
             ELSE [memories |-> m.memories, messages |-> m.messages,
                   conversation_chains |-> conversation_chains,
                   raised |-> TRUE, chain |-> NoChain]

\* _get_or_create_chain, run by call c.  built = FALSE: the chain constructor
\* raises for a reason of its own (the memory has been created by then, the
\* chain is not stored).  Without a vector store the chain is the plain
\* ConversationChain, built on the memory of _get_or_create_memory.
get_or_create_chain(sid, c, built) ==
    IF sid \in DOMAIN conversation_chains
    THEN [memories |-> memories, messages |-> messages,
          conversation_chains |-> conversation_chains,
          raised |-> FALSE, chain |-> conversation_chains[sid]]
    ELSE LET m  == get_or_create_memory(sid, c)
             ch == [id |-> c, memory |-> m.memories[sid], retrieval |-> vector_store]
         IN  IF built /\ (vector_store \/ ConversationChainAccepts(memory_key))
             THEN [memories |-> m.memories, messages |-> m.messages,
                   conversation_chains |-> Put(conversation_chains, sid, ch),
                   raised |-> FALSE, chain |-> ch]
             ELSE [memories |-> m.memories, messages |-> m.messages,
                   conversation_chains |-> conversation_chains,
                   raised |-> TRUE, chain |-> NoChain]

\* What bot.chat hands to its caller.
Pending == [kind |-> "pending", response |-> <<>>, sources |-> PyNone]

Returned(response, sources) ==
    [kind |-> "return", response |-> response, sources |-> sources]

Raised == [kind |-> "raise", response |-> <<>>, sources |-> PyNone]

\* Faulty variant of on_exception: the exception reaches the caller.
on_exception_raise == Raised

\* chat's except branch: return self._get_error_response(), None

on_exception == Returned(get_error_response, PyNone)

NoResult == [answer |-> "", docs |-> <<>>]

\* Session ids a client can put in a request: the ones clients make up and
\* the generated ones a response has already handed out.
KnownIds == ClientIds \cup {session_id[c] : c \in {d \in Calls : pc[d] = "done"}}

\* The turns of session sid that have completed with a reply.
CompletedTurns(sid) ==
    {c \in Calls : pc[c] = "done" /\ session_id[c] = sid /\ result[c] # NoResult}

(***************************************************************************)
(* Initial state: CustomerServiceBot.__init__, module load of main.py      *)
(***************************************************************************)
\* Module load of main.py with the default settings, before any request.
NoPost == [n |-> 0, ip |-> "", status |-> 0]

InitFront ==
    /\ settings = [rate_limit_enabled |-> TRUE, require_api_key |-> FALSE]
    /\ request_counts = <<>>
    /\ now = 0
    /\ accepted = <<>>
    /\ last = NoPost

\* No build of the knowledge base has run.
NoStore == [built |-> FALSE, seeded |-> FALSE, documents |-> {}, chunks |-> {}]

InitBuilder ==
    /\ knowledge_base = <<>>
    /\ vectorstore = NoStore

\* CustomerServiceBot.__init__: no session yet; the vector store loaded or not.
InitBot ==
    /\ vector_store \in BOOLEAN
    /\ memories = <<>>
    /\ conversation_chains = <<>>
    /\ messages = <<>>
    /\ issued = 0
    /\ pc = [c \in Calls |-> "idle"]
    /\ request = [c \in Calls |-> [message |-> "", session_id |-> NoSessionId]]
    /\ session_id = [c \in Calls |-> ""]
    /\ chain = [c \in Calls |-> NoChain]
    /\ result = [c \in Calls |-> NoResult]
    /\ ret = [c \in Calls |-> Pending]
    /\ lifecycle = [s \in SessionIds |-> "intact"]

Init ==
    /\ InitFront
    /\ InitBuilder
    /\ InitBot

(***************************************************************************)
(* POST /chat                                                              *)
(***************************************************************************)

\* The handler up to its await: main.chat resolves the session id, bot.chat
\* gets or creates the chain and hands the chain call to a worker thread.  A
\* chain constructor that raises ends the call in chat's except branch.
\* texts and givens are the message texts and the session_id fields the
\* request is drawn from.
ChatBeginWith(c, texts, givens) ==
    /\ c = issued + 1
    /\ pc[c] = "idle"
    /\ \E msg \in texts, given \in givens, built \in BOOLEAN :
         LET sid == resolve_session_id(given, c)
             g   == get_or_create_chain(sid, c, built)
         IN  /\ issued' = c
             /\ request' = [request EXCEPT ![c] = [message |-> msg, session_id |-> given]]
             /\ session_id' = [session_id EXCEPT ![c] = sid]
             /\ memories' = g.memories
             /\ messages' = g.messages
             /\ conversation_chains' = g.conversation_chains
             /\ chain' = [chain EXCEPT ![c] = g.chain]
             /\ pc' = [pc EXCEPT ![c] = IF g.raised THEN "done" ELSE "generating"]
             /\ ret' = [ret EXCEPT ![c] = IF g.raised THEN on_exception ELSE @]
             /\ lifecycle' = [lifecycle EXCEPT ![sid] =
                                IF @ = "cleared" THEN "reused" ELSE @]
    /\ UNCHANGED <<vector_store, result>>

\* A request of a client that sends a session id of its own.
ChatBegin(c) ==
    /\ ChatBeginWith(c, Messages, ClientIds)
    /\ UNCHANGED <<frontVars, builderVars>>

\* A request with any session_id field: absent, empty, or an id the client
\* knows.
ChatBeginAnyId(c) ==
    /\ ChatBeginWith(c, {"m1"}, {NoSessionId, ""} \cup KnownIds)
    /\ UNCHANGED <<frontVars, builderVars>>

\* Faulty variant of ChainCallFails: the user message is stored before the
\* chain call fails.
ChainCallFailsAfterSavingInput(c) ==
    /\ pc[c] = "generating"
    /\ pc' = [pc EXCEPT ![c] = "done"]
    /\ ret' = [ret EXCEPT ![c] = on_exception]
    /\ messages' = [messages EXCEPT ![chain[c].memory] =
                      Append(@, HumanMessage(request[c].message, c))]
    /\ UNCHANGED <<frontVars, builderVars>>
    /\ UNCHANGED <<vector_store, memories, conversation_chains, issued, request,
                   session_id, chain, result, lifecycle>>

\* The chain call raises (retrieval, embedding or generation failed): nothing
\* has been saved, the await re-raises and chat's except branch answers.
ChainCallFails(c) ==
    /\ pc[c] = "generating"
    /\ pc' = [pc EXCEPT ![c] = "done"]
    /\ ret' = [ret EXCEPT ![c] = on_exception]
    /\ UNCHANGED <<frontVars, builderVars>>
    /\ UNCHANGED <<vector_store, memories, conversation_chains, messages, issued,
                   request, session_id, chain, result, lifecycle>>

\* The chain call produced an answer; save_context starts: the worker thread
\* appends the HumanMessage to the messages of the chain's memory.  found
\* holds the document lists a retrieval chain may have returned.
ChainSaveHumanWith(c, found) ==
    /\ pc[c] = "generating"
    /\ \E answer \in Answers,
          docs \in (IF chain[c].retrieval THEN found ELSE {<<>>}) :
         result' = [result EXCEPT ![c] = [answer |-> answer, docs |-> docs]]
    /\ messages' = [messages EXCEPT ![chain[c].memory] =
                      Append(@, HumanMessage(request[c].message, c))]
    /\ pc' = [pc EXCEPT ![c] = "saving"]
    /\ UNCHANGED <<frontVars, builderVars>>
    /\ UNCHANGED <<vector_store, memories, conversation_chains, issued, request,
                   session_id, chain, ret, lifecycle>>

\* A retrieval that finds a document.
ChainSaveHuman(c) == ChainSaveHumanWith(c, {<<"doc1">>})

\* A retrieval that may find nothing.
ChainSaveHumanAnyDocs(c) == ChainSaveHumanWith(c, Retrieved)

\* save_context ends: the worker thread appends the AIMessage.
ChainSaveAI(c) ==
    /\ pc[c] = "saving"
    /\ messages' = [messages EXCEPT ![chain[c].memory] =
                      Append(@, AIMessage(result[c].answer, c))]
    /\ pc' = [pc EXCEPT ![c] = "saved"]
    /\ UNCHANGED <<frontVars, builderVars>>
    /\ UNCHANGED <<vector_store, memories, conversation_chains, issued, request,
                   session_id, chain, result, ret, lifecycle>>

\* The await resumes on the event loop: chat returns (response, source_info).
ChatReturn(c) ==
    /\ pc[c] = "saved"
    /\ ret' = [ret EXCEPT ![c] =
                 IF vector_store
                 THEN Returned(<<result[c].answer>>, source_info(result[c].docs))
                 ELSE Returned(<<result[c].answer>>, PyNone)]
    /\ pc' = [pc EXCEPT ![c] = "done"]
    /\ UNCHANGED <<frontVars, builderVars>>
    /\ UNCHANGED <<vector_store, memories, conversation_chains, messages, issued,
                   request, session_id, chain, result, lifecycle>>

\* main.chat's answer to the client, once bot.chat is over.
ChatResponse(c) ==
    IF ret[c].kind = "raise"
    THEN [status |-> 500, response |-> <<"Failed to process your message. Please try again.">>,
          session_id |-> "", sources |-> PyNone]
    ELSE [status |-> 200, response |-> ret[c].response,
          session_id |-> session_id[c], sources |-> ret[c].sources]

(***************************************************************************)
(* GET and DELETE /conversation/{session_id}                               *)
(***************************************************************************)

\* clear_conversation: the memory objects and chains afterwards, and the
\* value returned (True unless clearing raises, which it never does).
clear_conversation(sid) ==
    [messages |-> IF sid \in DOMAIN memories
                  THEN [messages EXCEPT ![memories[sid]] = <<>>]
                  ELSE messages,
     conversation_chains |-> IF sid \in DOMAIN conversation_chains
                             THEN Del(conversation_chains, sid)
                             ELSE conversation_chains,
     success |-> TRUE]

\* DELETE /conversation/{sid}: what main.clear_conversation answers when
\* bot.clear_conversation gives back success.
DeleteResponse(success) ==
    IF success
    THEN [status |-> 200, detail |-> "Conversation cleared successfully"]
    ELSE [status |-> 404, detail |-> "Session not found"]

\* lifecycle[sid] is "intact" until a clear finds a memory for sid,
\* "cleared" after a clear that found a completed turn, until the next chat
\* for sid begins, and "reused" otherwise.
ClearConversation(sid) ==
    LET r == clear_conversation(sid)
    IN  /\ messages' = r.messages
        /\ conversation_chains' = r.conversation_chains
        /\ lifecycle' = [lifecycle EXCEPT ![sid] =
                           IF sid \notin DOMAIN memories THEN @
                           ELSE IF CompletedTurns(sid) # {} THEN "cleared"
                           ELSE "reused"]
        /\ UNCHANGED <<frontVars, builderVars>>
        /\ UNCHANGED <<vector_store, memories, issued, pc, request, session_id,
                       chain, result, ret>>

\* GET /conversation/{sid}: answers get_conversation_history(sid) and leaves
\* the bot as it is.
GetConversation(sid) ==
    /\ sid \in KnownIds
    /\ UNCHANGED vars

(***************************************************************************)
(* Session reclamation                                                     *)
(***************************************************************************)

\* cleanup_old_sessions: the session count above which it logs a warning.
high_session_count == 100

\* Faulty variant of cleanup_old_sessions: above the threshold a session is
\* evicted.
cleanup_old_sessions_evicts ==
    LET many   == Cardinality(DOMAIN memories) > high_session_count
        victim == CHOOSE sid \in DOMAIN memories : TRUE
    IN  [memories |-> IF many THEN Del(memories, victim) ELSE memories,
         conversation_chains |-> IF many /\ victim \in DOMAIN conversation_chains
                                 THEN Del(conversation_chains, victim)
                                 ELSE conversation_chains,
         warning |-> many]

\* cleanup_old_sessions(max_age_hours): the memories and chains afterwards,
\* and whether the warning is logged.  It counts the sessions and logs.
cleanup_old_sessions ==
    [memories |-> memories,
     conversation_chains |-> conversation_chains,
     warning |-> Cardinality(DOMAIN memories) > high_session_count]

CleanupOldSessions ==
    LET r == cleanup_old_sessions
    IN  /\ memories' = r.memories
        /\ conversation_chains' = r.conversation_chains
        /\ last' = [op |-> "cleanup_old_sessions", warning |-> r.warning]
        /\ UNCHANGED <<vector_store, messages, issued, pc, request, session_id,
                       chain, result, ret, lifecycle>>
        /\ UNCHANGED <<settings, request_counts, now, accepted, builderVars>>

\* Sessions opened before the behaviour begins, by clients that stay silent:
\* the n-th has a memory and a chain of its own and an empty transcript.
OldSession(n) == "old-" \o ToString(n)

OldSessions(n) == {OldSession(i) : i \in 1..n}

\* The memory object of an old session (the objects 1..MaxCalls are those the
\* calls of the behaviour allocate).
OldObject(sid, n) == MaxCalls + (CHOOSE i \in 1..n : sid = OldSession(i))

OldChain(sid, n) ==
    [id |-> OldObject(sid, n), memory |-> OldObject(sid, n), retrieval |-> TRUE]

\* How many such sessions there are: none, or about as many as the threshold.
OldCounts == {0, high_session_count - 1, high_session_count, high_session_count + 1}

\* A turn of a client that names its session "A" or leaves the id to the
\* server.
ChatBeginOneClient(c) ==
    /\ ChatBeginWith(c, {"m1"}, {"A", NoSessionId})
    /\ UNCHANGED <<frontVars, builderVars>>

\* A bot with a vector store that holds old sessions.
InitCrowded ==
    /\ InitFront
    /\ InitBuilder
    /\ vector_store = TRUE
    /\ \E n \in OldCounts :
         /\ memories = [sid \in OldSessions(n) |-> OldObject(sid, n)]
         /\ conversation_chains = [sid \in OldSessions(n) |-> OldChain(sid, n)]
         /\ messages = [m \in {OldObject(sid, n) : sid \in OldSessions(n)} |-> <<>>]
    /\ issued = 0
    /\ pc = [c \in Calls |-> "idle"]
    /\ request = [c \in Calls |-> [message |-> "", session_id |-> NoSessionId]]
    /\ session_id = [c \in Calls |-> ""]
    /\ chain = [c \in Calls |-> NoChain]
    /\ result = [c \in Calls |-> NoResult]
    /\ ret = [c \in Calls |-> Pending]
    /\ lifecycle = [s \in SessionIds |-> "intact"]

NextCrowded ==
    \/ \E c \in Calls : ChatBeginOneClient(c)
    \/ \E c \in Calls : ChainCallFails(c)
    \/ \E c \in Calls : ChainSaveHuman(c)
    \/ \E c \in Calls : ChainSaveAI(c)
    \/ \E c \in Calls : ChatReturn(c)
    \/ \E sid \in KnownIds : ClearConversation(sid)
    \/ CleanupOldSessions

SpecCrowded == InitCrowded /\ [][NextCrowded]_vars

(***************************************************************************)
(* The worker threads behind asyncio.to_thread                             *)
(***************************************************************************)

\* Threads of the event loop's default executor, on which asyncio.to_thread
\* runs the chain calls: min(32, os.cpu_count() + 4) in a run of the
\* program, fewer here.  Spec and SpecHttp issue no more calls than a run has
\* threads.
max_workers == 1

\* The chain call of call c has been handed to the executor and is not over.
ChainCallPending(c) == pc[c] \in {"generating", "saving"}

\* The chain call of call c is on a worker thread: the executor starts the
\* calls in the order they were handed over (the order of the call ids), each
\* as soon as a thread is free.
OnWorker(c) ==
    /\ ChainCallPending(c)
    /\ Cardinality({d \in Calls : d < c /\ ChainCallPending(d)}) < max_workers

\* The chain call steps of a call, which need its worker thread.
PoolChainCallFails(c) == OnWorker(c) /\ ChainCallFails(c)

PoolChainSaveHuman(c) == OnWorker(c) /\ ChainSaveHuman(c)

\* The program with more calls outstanding than the executor has threads.
NextPool ==
    \/ \E c \in Calls : ChatBegin(c)
    \/ \E c \in Calls : PoolChainCallFails(c)
    \/ \E c \in Calls : PoolChainSaveHuman(c)
    \/ \E c \in Calls : ChainSaveAI(c)
    \/ \E c \in Calls : ChatReturn(c)
    \/ \E sid \in KnownIds : ClearConversation(sid)
    \/ \E sid \in KnownIds : GetConversation(sid)

SpecPool == Init /\ [][NextPool]_vars

(***************************************************************************)
(* The front door of POST /chat: rate limit, API key, request validation   *)
(***************************************************************************)

\* Number of requests a behaviour may send through the front door.
MaxRequests == 4

\* Client addresses (request.client.host).
ClientIps == {"ip1", "ip2"}

\* settings.max_requests_per_minute: 60 by default, read from the
\* environment; a small setting keeps the limit within reach.
max_requests_per_minute == 2

\* Seconds the clock may have advanced between two readings of utcnow():
\* none, a second, just inside and just outside a minute, a whole day.
Elapsed == {0, 1, 59, 60, 86400}

\* timedelta.seconds of a difference of d seconds: a timedelta is kept as
\* (days, seconds, microseconds) with 0 <= seconds < 86400, and .seconds is
\* the seconds field alone.
timedelta_seconds(d) == d % 86400

\* Faulty variant of check_rate_limit: the request is recorded before the
\* limit is checked.
check_rate_limit_records_rejected(ip, t) ==
    LET known  == IF ip \in DOMAIN request_counts THEN request_counts[ip] ELSE <<>>
        recent == SelectSeq(known, LAMBDA ts : timedelta_seconds(t - ts) < 60)
    IN  [request_counts |-> Put(request_counts, ip, Append(recent, t)),
         raised |-> settings.rate_limit_enabled
                    /\ Len(recent) >= max_requests_per_minute]

\* check_rate_limit for a request of client ip read at time t: the
\* request_counts afterwards, and whether HTTPException(429) is raised.
check_rate_limit(ip, t) ==
    IF ~settings.rate_limit_enabled
    THEN [request_counts |-> request_counts, raised |-> FALSE]
    ELSE LET known  == IF ip \in DOMAIN request_counts
                       THEN request_counts[ip] ELSE <<>>
             recent == SelectSeq(known, LAMBDA ts : timedelta_seconds(t - ts) < 60)
         IN  IF Len(recent) >= max_requests_per_minute
             THEN [request_counts |-> Put(request_counts, ip, recent),
                   raised |-> TRUE]
             ELSE [request_counts |-> Put(request_counts, ip, Append(recent, t)),
                   raised |-> FALSE]

\* The dependency check_rate_limit, run for a request of client ip that
\* arrives d seconds after the previous one.  accepted logs the requests the
\* enabled limiter lets through; last says what it decided.
CheckRateLimit(ip, d) ==
    /\ last.n < MaxRequests
    /\ LET t == now + d
           r == check_rate_limit(ip, t)
       IN  /\ now' = t
           /\ request_counts' = r.request_counts
           /\ accepted' = IF r.raised \/ ~settings.rate_limit_enabled
                          THEN accepted
                          ELSE Append(accepted, [ip |-> ip, ts |-> t])
           /\ last' = [n |-> last.n + 1, ip |-> ip,
                       status |-> IF r.raised THEN 429 ELSE 200]
    /\ UNCHANGED <<settings, botVars, builderVars>>

\* ChatRequest.message: Field(..., min_length=1, max_length=2000)
min_length == 1

max_length == 2000

\* A message text of n characters.
RECURSIVE Text(_)
Text(n) ==
    IF n = 0 THEN ""
    ELSE LET half == Text(n \div 2)
         IN  IF n % 2 = 0 THEN half \o half ELSE half \o half \o "x"

\* The message fields of the requests: empty, short, of the greatest length
\* allowed, and one character longer.
Bodies == {"", "m1", Text(max_length), Text(max_length + 1)}

\* Faulty variant of validate: there is no lower bound on the length.
validate_any_short(msg) == Len(msg) <= max_length

\* Validation of the request body against ChatRequest: the length of message.
validate(msg) == min_length <= Len(msg) /\ Len(msg) <= max_length

\* The X-API-Key header of a request (absent, or a key), and
\* settings.valid_api_keys.
NoApiKey == "<None>"

ApiKeys == {NoApiKey, "k1"}

valid_api_keys == {"k1"}

\* verify_api_key: TRUE when it returns, FALSE when it raises 401.
verify_api_key(x_api_key) ==
    \/ ~settings.require_api_key
    \/ (x_api_key # NoApiKey /\ x_api_key # "" /\ x_api_key \in valid_api_keys)

\* POST /chat, up to the await in bot.chat.  The framework runs the
\* dependencies in the order they are declared (check_rate_limit,
\* verify_api_key), then validates the body, and calls main.chat only if
\* nothing was raised and the body is valid; main.chat begins the turn.
PostChat ==
    /\ \E ip \in {"ip1"}, x_api_key \in ApiKeys, msg \in Bodies :
         LET lim    == check_rate_limit(ip, now)
             status == IF lim.raised THEN 429
                       ELSE IF ~verify_api_key(x_api_key) THEN 401
                       ELSE IF ~validate(msg) THEN 422
                       ELSE 200
         IN  /\ request_counts' = lim.request_counts
             /\ accepted' = IF lim.raised \/ ~settings.rate_limit_enabled
                            THEN accepted
                            ELSE Append(accepted, [ip |-> ip, ts |-> now])
             /\ last' = [ip |-> ip, status |-> status, message |-> msg]
             /\ IF status = 200
                THEN issued < MaxCalls /\ ChatBeginWith(issued + 1, {msg}, {"A"})
                ELSE UNCHANGED botVars
    /\ UNCHANGED <<settings, now, builderVars>>

\* The bot behind its front door: requests of any message length, with or
\* without an API key, under any setting of the limiter and the key check.
InitFrontDoor ==
    /\ settings \in [rate_limit_enabled : BOOLEAN, require_api_key : BOOLEAN]
    /\ request_counts = <<>>
    /\ now = 0
    /\ accepted = <<>>
    /\ last = NoPost
    /\ InitBuilder
    /\ InitBot

NextFrontDoor ==
    \/ PostChat
    \/ \E c \in Calls : ChainCallFails(c)
    \/ \E c \in Calls : ChainSaveHuman(c)
    \/ \E c \in Calls : ChainSaveAI(c)
    \/ \E c \in Calls : ChatReturn(c)

SpecFrontDoor == InitFrontDoor /\ [][NextFrontDoor]_vars

\* The limiter alone, under two clients and a clock that advances.
InitLimiter ==
    /\ settings \in [rate_limit_enabled : BOOLEAN, require_api_key : {FALSE}]
    /\ request_counts = <<>>
    /\ now = 0
    /\ accepted = <<>>
    /\ last = NoPost
    /\ InitBuilder
    /\ InitBot

NextLimiter ==
    \E ip \in ClientIps, d \in Elapsed : CheckRateLimit(ip, d)

SpecLimiter == InitLimiter /\ [][NextLimiter]_vars

(***************************************************************************)
(* The knowledge-base builder (build_knowledge_base.py)                    *)
(***************************************************************************)

File(name, ext) == [name |-> name, ext |-> ext]

\* load_documents: the file types that have a loader.
loaders == {".txt", ".pdf", ".csv", ".md"}

\* The files _create_sample_documents writes.
sample_content ==
    {File("company_info", ".txt"), File("shipping_policy", ".txt"),
     File("return_policy", ".txt"), File("faq", ".txt")}

\* Files a documents directory may hold before the build, and what a file
\* may be: readable by the loader of its type, or not (the loader raises).
UserFiles ==
    {File("guide", ".md"), File("prices", ".csv"), File("logo", ".png"),
     File("return_policy", ".txt")}

Readable == "readable"

Unreadable == "unreadable"

\* load_documents(directory): the documents of the files that have a loader
\* and load; a file whose loader raises is logged and skipped.
load_documents(directory) ==
    {[source |-> f] : f \in {g \in DOMAIN directory :
                               g.ext \in loaders /\ directory[g] = Readable}}

\* Faulty variant of create_sample_documents: nothing is written.
create_sample_documents_nothing(directory) == directory

\* _create_sample_documents(directory): each sample file is written (a file
\* of that name is overwritten) with text that the text loader reads.
create_sample_documents(directory) ==
    [f \in DOMAIN directory \cup sample_content |->
        IF f \in sample_content THEN Readable ELSE directory[f]]

\* text_splitter.split_documents: the chunks of the documents, each with the
\* metadata of its document (one chunk stands for the chunks of a document).
split_documents(documents) == {[source |-> d.source, chunk |-> 1] : d \in documents}

\* build_vector_store on the documents directory as it is: load, seed the
\* samples and load again when nothing was loaded, split, and index.
\* indexed = FALSE: Chroma.from_documents raises (the embedding call failed)
\* and nothing is returned.
BuildVectorStore ==
    /\ \E indexed \in BOOLEAN :
         LET first     == load_documents(knowledge_base)
             seeded    == first = {}
             directory == IF seeded THEN create_sample_documents(knowledge_base)
                          ELSE knowledge_base
             documents == IF seeded THEN load_documents(directory) ELSE first
         IN  /\ knowledge_base' = directory
             /\ vectorstore' = [built |-> indexed, seeded |-> seeded,
                                documents |-> documents,
                                chunks |-> IF indexed THEN split_documents(documents)
                                           ELSE {}]
    /\ UNCHANGED <<botVars, frontVars>>

\* A documents directory with any of the files, each readable or not (a
\* directory that does not exist is created empty).
InitBuild ==
    /\ \E present \in SUBSET UserFiles :
           knowledge_base \in [present -> {Readable, Unreadable}]
    /\ vectorstore = NoStore
    /\ InitFront
    /\ InitBot

SpecBuild == InitBuild /\ [][BuildVectorStore]_vars

\* The program under clients that name their sessions themselves (two
\* sessions, two message texts), with a retriever that finds a document.
Next ==
    \/ \E c \in Calls : ChatBegin(c)
    \/ \E c \in Calls : ChainCallFails(c)
    \/ \E c \in Calls : ChainSaveHuman(c)
    \/ \E c \in Calls : ChainSaveAI(c)
    \/ \E c \in Calls : ChatReturn(c)
    \/ \E sid \in KnownIds : ClearConversation(sid)
    \/ \E sid \in KnownIds : GetConversation(sid)

Spec == Init /\ [][Next]_vars

\* The program with the progress its scheduling guarantees: a worker thread
\* that has its answer goes on to finish save_context, and the event loop
\* resumes a call whose chain call is over.  Nothing makes the external
\* services (embedding, vector search, generation) answer or fail: the code
\* passes no timeout to them and does not bound the await.
Fairness ==
    \A c \in Calls : WF_vars(ChainSaveAI(c)) /\ WF_vars(ChatReturn(c))

SpecLive == Spec /\ Fairness

\* The same program under requests with any session_id field (absent, empty,
\* client-made, or handed out earlier) and a retriever that may find nothing.
NextHttp ==
    \/ \E c \in Calls : ChatBeginAnyId(c)
    \/ \E c \in Calls : ChainCallFails(c)
    \/ \E c \in Calls : ChainSaveHumanAnyDocs(c)
    \/ \E c \in Calls : ChainSaveAI(c)
    \/ \E c \in Calls : ChatReturn(c)
    \/ \E sid \in KnownIds : ClearConversation(sid)
    \/ \E sid \in KnownIds : GetConversation(sid)

SpecHttp == Init /\ [][NextHttp]_vars

(***************************************************************************)
(* Properties                                                              *)
(***************************************************************************)

\* The turn of call c is over and its chain was never built or gave no answer.
Failed(c) == pc[c] = "done" /\ result[c] = NoResult

\* The turn of call c is over and its chain call gave an answer.
Succeeded(c) == pc[c] = "done" /\ result[c] # NoResult

\* Call c has begun and is not over.
InFlight(c) == pc[c] \in {"generating", "saving", "saved"}

\* The stored messages of session sid (with their history field).
Transcript(sid) == messages[memories[sid]]

\* C1: chat never raises to its caller: no call ever ends by raising, and a
\* call whose turn failed (chain creation or chain call) has returned the
\* fixed fallback text, which contains settings.support_email, with
\* sources = None (so POST /chat answers 200 with that text).
C1_ChatNeverRaises ==
    \A c \in Calls :
        /\ ret[c].kind # "raise"
        /\ pc[c] = "done" => ret[c].kind = "return" /\ ChatResponse(c).status = 200
        /\ Failed(c) =>
             /\ ret[c].response = get_error_response
             /\ Contains(ret[c].response, support_email)
             /\ ret[c].sources = PyNone

\* C1 witness: one call failed creating its chain, another in its chain call.
C1_Witness ==
    \E c, d \in Calls :
        /\ Failed(c) /\ chain[c] = NoChain
        /\ Failed(d) /\ chain[d] # NoChain

\* No stored message was written by a turn that failed.
NoEntryOfFailedTurn ==
    \A m \in DOMAIN messages :
        \A i \in DOMAIN messages[m] : ~Failed(messages[m][i].turn)

\* The step that ends a failed turn leaves every session's history as it was.
FailingStepKeepsHistory ==
    \A c \in Calls :
        (pc[c] # "done" /\ pc'[c] = "done" /\ result'[c] = NoResult)
            => \A sid \in SessionIds :
                   get_conversation_history(sid)' = get_conversation_history(sid)

\* C2: a turn that fails appends nothing to the session transcript: the
\* history of every session is the same after the failing step as before
\* it, and no transcript ever holds an entry of a failed turn.
C2_FailedTurnAppendsNothing ==
    []NoEntryOfFailedTurn /\ [][FailingStepKeepsHistory]_vars

\* C2 witness: a turn failed in its chain call on a session that already had
\* a recorded turn.
C2_Witness ==
    \E c \in Calls :
        /\ Failed(c) /\ chain[c] # NoChain
        /\ get_conversation_history(session_id[c]) # <<>>

\* C3 (as claimed): clearing an id that is unknown, or that has no prior
\* turn, returns false and DELETE answers 404.
C3_ClearUnknownReturnsFalse ==
    \A sid \in KnownIds :
        (sid \notin DOMAIN memories \/ CompletedTurns(sid) = {})
            => /\ clear_conversation(sid).success = FALSE
               /\ DeleteResponse(clear_conversation(sid).success).status = 404

\* C4 (as claimed): clearing a session that has a completed turn returns
\* true and drops its chain, and from then on, as long as no new turn is
\* submitted for it, its history is empty.
C4_ClearedStaysEmpty ==
    \A sid \in SessionIds :
        /\ CompletedTurns(sid) # {} => clear_conversation(sid).success
        /\ lifecycle[sid] = "cleared"
             => /\ sid \notin DOMAIN conversation_chains
                /\ get_conversation_history(sid) = <<>>

\* The history the claim expects of session sid after the calls 1..n: the
\* user entry and the assistant entry of each successful call, in call order.
RECURSIVE ExpectedHistory(_, _)
ExpectedHistory(sid, n) ==
    IF n = 0 THEN <<>>
    ELSE ExpectedHistory(sid, n - 1) \o
         (IF Succeeded(n) /\ session_id[n] = sid
          THEN << [role |-> "user", content |-> request[n].message],
                  [role |-> "assistant", content |-> result[n].answer] >>
          ELSE <<>>)

\* C5 (as claimed): once the calls made for a never-cleared session are all
\* over, its history is exactly the user and assistant entries of its
\* successful calls, in the order the calls were made.
C5_HistoryInCallOrder ==
    \A sid \in DOMAIN memories :
        (lifecycle[sid] = "intact"
         /\ \A c \in Calls : session_id[c] = sid => ~InFlight(c))
            => get_conversation_history(sid) = ExpectedHistory(sid, MaxCalls)

\* Every stored message of a session was written by a turn submitted to that
\* session, and holds that turn's message or answer.
NoCrossContamination ==
    \A sid \in DOMAIN memories :
        \A i \in DOMAIN Transcript(sid) :
            LET e == Transcript(sid)[i]
            IN  /\ session_id[e.turn] = sid
                /\ e.content = IF e.type = "human" THEN request[e.turn].message
                               ELSE result[e.turn].answer

\* C6 (as claimed): the transcript of a session holds only the messages
\* submitted to it and their replies, in the order they were submitted.
C6_OwnMessagesInSubmissionOrder ==
    /\ NoCrossContamination
    /\ \A sid \in DOMAIN memories :
           lifecycle[sid] = "intact"
               => \A i, j \in DOMAIN Transcript(sid) :
                      i < j => Transcript(sid)[i].turn <= Transcript(sid)[j].turn

\* C7 (as claimed): in the transcript of a never-cleared session each
\* turn's user entry is immediately followed by the same turn's assistant
\* entry (or is the last entry, while that turn is saving).
C7_NoInterleavedEntries ==
    \A sid \in DOMAIN memories :
        lifecycle[sid] = "intact"
            => LET h == Transcript(sid)
               IN  \A i \in DOMAIN h :
                       /\ h[i].type = "human" =>
                              \/ i = Len(h) /\ pc[h[i].turn] = "saving"
                              \/ i < Len(h) /\ h[i+1].type = "ai"
                                            /\ h[i+1].turn = h[i].turn
                       /\ h[i].type = "ai" =>
                              i > 1 /\ h[i-1].type = "human"
                                    /\ h[i-1].turn = h[i].turn

\* C8 (as claimed): the entries of a turn issued earlier precede the entries
\* of a turn issued later (calls are numbered in the order they are issued).
C8_TurnsInIssueOrder ==
    \A sid \in DOMAIN memories :
        lifecycle[sid] = "intact"
            => LET h == Transcript(sid)
               IN  \A i, j \in DOMAIN h : h[i].turn < h[j].turn => i < j

\* Every call works on the memory stored under its session id, and so does
\* every cached chain.
OneSessionObject ==
    /\ \A c \in Calls :
           chain[c] # NoChain => /\ session_id[c] \in DOMAIN memories
                                 /\ chain[c].memory = memories[session_id[c]]
    /\ \A sid \in DOMAIN conversation_chains :
           /\ sid \in DOMAIN memories
           /\ conversation_chains[sid].memory = memories[sid]

\* A step keeps the memory stored under an id, allocates a memory empty, keeps
\* a cached chain unless it drops it, and hands a call the cached chain.
SessionObjectsKept ==
    /\ \A sid \in SessionIds :
           /\ sid \in DOMAIN memories
                  => sid \in DOMAIN memories' /\ memories'[sid] = memories[sid]
           /\ (sid \notin DOMAIN memories /\ sid \in DOMAIN memories')
                  => messages'[memories'[sid]] = <<>>
           /\ (sid \in DOMAIN conversation_chains /\ sid \in DOMAIN conversation_chains')
                  => conversation_chains'[sid] = conversation_chains[sid]
    /\ \A c \in Calls :
           (pc[c] = "idle" /\ pc'[c] = "generating"
            /\ session_id'[c] \in DOMAIN conversation_chains)
               => chain'[c] = conversation_chains[session_id'[c]]

\* C9: get_or_create is idempotent and atomic: the first call for an id
\* allocates one empty memory and a chain, every later call gets the same
\* memory and (until a clear drops it) the same chain, and no two calls for
\* one id ever hold different memory objects.
C9_GetOrCreateIdempotent ==
    []OneSessionObject /\ [][SessionObjectsKept]_vars

\* C9 witness: two first turns of one session in flight at once, holding the
\* same chain.
C9_Witness ==
    \E c, d \in Calls :
        /\ c # d /\ session_id[c] = session_id[d]
        /\ pc[c] = "generating" /\ pc[d] = "generating"
        /\ chain[c] # NoChain /\ chain[c] = chain[d]

\* The generated id of call c is new: not empty, not an id a client made up,
\* and not the id of any other call issued before it.
FreshId(c) ==
    /\ session_id[c] # ""
    /\ session_id[c] \notin ClientIds
    /\ \A d \in Calls : d < c => session_id[d] # session_id[c]

\* Nothing but call c has touched the session of call c.
OnlyUser(c) ==
    /\ lifecycle[session_id[c]] = "intact"
    /\ \A d \in Calls : (d # c /\ pc[d] # "idle") => session_id[d] # session_id[c]

TwoEntries(c) ==
    get_conversation_history(session_id[c]) =
        << [role |-> "user", content |-> request[c].message],
           [role |-> "assistant", content |-> result[c].answer] >>

\* C10 (as claimed): a request without a session_id is answered with a
\* fresh non-empty id whose history, after the successful turn, holds the 2
\* entries of that turn; a request with a session_id gets that id back.
C10_Original ==
    \A c \in Calls :
        pc[c] = "done" =>
            /\ request[c].session_id = NoSessionId
                   => /\ ChatResponse(c).session_id = session_id[c]
                      /\ FreshId(c)
                      /\ (Succeeded(c) /\ OnlyUser(c)) => TwoEntries(c)
            /\ request[c].session_id # NoSessionId
                   => ChatResponse(c).session_id = request[c].session_id

\* C10 (amended): a request without a session_id, or with an empty one, is
\* answered with a fresh non-empty id whose history, after the successful
\* turn, holds the 2 entries of that turn; a request with a non-empty
\* session_id gets that id back.
C10_SessionIdResolved ==
    \A c \in Calls :
        pc[c] = "done" =>
            /\ ~Truthy(request[c].session_id)
                   => /\ ChatResponse(c).session_id = session_id[c]
                      /\ FreshId(c)
                      /\ (Succeeded(c) /\ OnlyUser(c)) => TwoEntries(c)
            /\ Truthy(request[c].session_id)
                   => ChatResponse(c).session_id = request[c].session_id

\* C10 witness: a successful turn sent with an empty session_id and a turn
\* sent under an id the client chose have both been answered.
C10_Witness ==
    \E c, d \in Calls :
        /\ Succeeded(c) /\ request[c].session_id = "" /\ OnlyUser(c) /\ TwoEntries(c)
        /\ pc[d] = "done" /\ request[d].session_id \in ClientIds

\* The requests of client ip that the limiter let through at a time within
\* lo..hi.
AcceptedIn(ip, lo, hi) ==
    {i \in DOMAIN accepted :
        accepted[i].ip = ip /\ lo <= accepted[i].ts /\ accepted[i].ts <= hi}

\* C18 (as claimed): with rate limiting enabled, a request of a client that
\* had fewer than max_requests_per_minute requests accepted during the
\* preceding 60 seconds is not rejected with 429, however many requests the
\* client made before that and however long ago.
C18_UnderLimitNeverRejected ==
    (settings.rate_limit_enabled /\ last.n > 0
     /\ Cardinality(AcceptedIn(last.ip, now - 60, now)) < max_requests_per_minute)
        => last.status # 429

\* At most max_requests_per_minute accepted requests of a client lie in any
\* window of 60 seconds [t, t + 60) (it is enough to look at the windows that
\* start at an accepted request), and the list kept for a client holds only
\* times at which a request of that client was accepted.
WithinLimit ==
    settings.rate_limit_enabled =>
        /\ \A i \in DOMAIN accepted :
               Cardinality(AcceptedIn(accepted[i].ip, accepted[i].ts,
                                      accepted[i].ts + 59))
                   <= max_requests_per_minute
        /\ \A ip \in DOMAIN request_counts :
               /\ Len(request_counts[ip]) <= Cardinality(AcceptedIn(ip, 0, now))
               /\ \A k \in DOMAIN request_counts[ip] :
                      AcceptedIn(ip, request_counts[ip][k], request_counts[ip][k]) # {}

\* A rejected request adds no entry to any list, and a request of one client
\* leaves the lists of the other clients as they are.
LimiterStep ==
    (settings.rate_limit_enabled /\ last'.n = last.n + 1) =>
        /\ last'.status = 429 =>
               /\ accepted' = accepted
               /\ \A ip \in DOMAIN request_counts' :
                      Len(request_counts'[ip]) <=
                          (IF ip \in DOMAIN request_counts
                           THEN Len(request_counts[ip]) ELSE 0)
        /\ \A ip \in DOMAIN request_counts' :
               ip # last'.ip => /\ ip \in DOMAIN request_counts
                                /\ request_counts'[ip] = request_counts[ip]

\* C19: with rate limiting enabled, at most max_requests_per_minute requests
\* of a client are accepted within any 60-second window, a rejected (429)
\* request is not recorded in the client's list, and the requests of one
\* client never count against another.
C19_AtMostMaxPerWindow ==
    []WithinLimit /\ [][LimiterStep]_vars

\* C19 witness: two clients were accepted at the same moment, and a client
\* whose list is full has just been rejected.
C19_Witness ==
    /\ settings.rate_limit_enabled
    /\ \E i, j \in DOMAIN accepted :
           /\ i < j
           /\ accepted[i].ip # accepted[j].ip
           /\ accepted[i].ts = accepted[j].ts
    /\ last.status = 429
    /\ Len(request_counts[last.ip]) = max_requests_per_minute

\* last is the answer to a POST /chat whose message is empty or longer than
\* 2000 characters.
InvalidPost ==
    /\ "message" \in DOMAIN last
    /\ (Len(last.message) = 0 \/ Len(last.message) > 2000)

\* A request with such a message is never answered 200: it is answered 422
\* unless a dependency has already refused it (429 by the full limiter, 401
\* by the key check); and no turn ever runs on such a message.
RejectedAtBoundary ==
    /\ InvalidPost =>
           /\ last.status \in {422, 429, 401}
           /\ last.status = 429 =>
                  /\ settings.rate_limit_enabled
                  /\ Len(request_counts[last.ip]) >= max_requests_per_minute
           /\ last.status = 401 => settings.require_api_key
    /\ \A c \in Calls :
           pc[c] # "idle" => (Len(request[c].message) >= 1
                              /\ Len(request[c].message) <= 2000)

\* The step that answers such a request leaves the bot as it is: bot.chat is
\* not called, and no session, memory or chain is created or changed.
RejectedStepKeepsBot ==
    ((last' # last \/ request_counts' # request_counts) /\ InvalidPost')
        => UNCHANGED botVars

\* C11 (as claimed): a chat request whose message is empty (or longer than
\* 2000 characters) is rejected with a validation error (422), and no turn
\* runs on it.
C11_Original ==
    /\ InvalidPost => last.status = 422
    /\ \A c \in Calls :
           pc[c] # "idle" => (Len(request[c].message) >= 1
                              /\ Len(request[c].message) <= 2000)

\* C11 (amended): a chat request whose message is empty (or longer than 2000
\* characters) is rejected before the engine is invoked, with a validation
\* error unless the rate limit (429) or the API-key check (401) has already
\* refused it: bot.chat is not called and no session, memory or chain is
\* created or changed by the rejected request.
C11_InvalidMessageRejected ==
    []RejectedAtBoundary /\ [][RejectedStepKeepsBot]_vars

\* C11 witness: a request with an empty message has been answered 422 while
\* a turn of an existing session was waiting for its answer.
C11_Witness ==
    /\ InvalidPost /\ last.message = "" /\ last.status = 422
    /\ \E c \in Calls : pc[c] = "generating" /\ session_id[c] \in DOMAIN memories

\* Call c waits on its generation call and no other call of its session is
\* in progress.
WaitsAlone(c) ==
    /\ pc[c] = "generating"
    /\ \A d \in Calls : (d # c /\ InFlight(d)) => session_id[d] # session_id[c]

\* C12 (as claimed): however many calls of other sessions are waiting on
\* their generation call, a chat call for a different session can start
\* (as long as the behaviour issues calls at all), and once started its own
\* generation call can run, answer and let the call return.
C12_OtherSessionsNotStalled ==
    /\ issued < MaxCalls => ENABLED ChatBegin(issued + 1)
    /\ \A c \in Calls :
           WaitsAlone(c) => /\ ENABLED PoolChainSaveHuman(c)
                            /\ ENABLED PoolChainCallFails(c)

\* C13 (as claimed): every submitted turn eventually returns to its caller:
\* a call that waits on its external calls ends (with the reply, or with the
\* fallback when the external call never answers).
C13_EveryTurnReturns ==
    \A c \in Calls : (pc[c] = "generating") ~> (pc[c] = "done")

\* C14 (as claimed): when no vector index is available the turn still
\* succeeds: a new turn is taken up by the plain conversation chain (its chain
\* is built and its generation call begins), no retrieval is done, and a turn
\* that got its answer has returned it with sources = None and is recorded
\* in the transcript.
C14_NoIndexStillAnswers ==
    ~vector_store =>
        /\ issued < MaxCalls =>
               ENABLED (ChatBegin(issued + 1) /\ pc'[issued + 1] = "generating")
        /\ \A c \in Calls :
               /\ ~chain[c].retrieval /\ result[c].docs = <<>>
               /\ Succeeded(c) =>
                      /\ ret[c] = Returned(<<result[c].answer>>, PyNone)
                      /\ lifecycle[session_id[c]] = "intact" =>
                             \E i \in DOMAIN Transcript(session_id[c]) :
                                 Transcript(session_id[c])[i] =
                                     AIMessage(result[c].answer, c)

\* The life-cycle state of session sid, read off the bot: NEW while its
\* transcript is empty (whether or not anything has been created for it yet),
\* ACTIVE with a cached chain and a transcript, CLEARED with a memory, an
\* empty transcript and no cached chain.
SessionState(sid) ==
    IF sid \notin DOMAIN memories THEN "NEW"
    ELSE IF sid \in DOMAIN conversation_chains
         THEN (IF Transcript(sid) = <<>> THEN "NEW" ELSE "ACTIVE")
         ELSE (IF Transcript(sid) = <<>> THEN "CLEARED" ELSE "NONE")

\* Every session is in one of the three states.
LifeCycleStates ==
    \A sid \in SessionIds : SessionState(sid) \in {"NEW", "ACTIVE", "CLEARED"}

\* The transitions: a session is ACTIVE only after NEW or ACTIVE, and leaves
\* CLEARED only by a new message for it, which makes it NEW, with an empty
\* transcript and a chain built by that call.
LifeCycleSteps ==
    \A sid \in SessionIds :
        /\ SessionState(sid)' = "ACTIVE" => SessionState(sid) \in {"NEW", "ACTIVE"}
        /\ (SessionState(sid) = "CLEARED" /\ SessionState(sid)' # "CLEARED")
               => /\ issued' = issued + 1
                  /\ session_id'[issued'] = sid
                  /\ SessionState(sid)' = "NEW"
                  /\ conversation_chains'[sid].id = issued'

\* C15 (as claimed): each session follows only the life cycle NEW -> ACTIVE
\* (first turn) -> ACTIVE (each further turn) -> CLEARED (clear); CLEARED is
\* left only by a new message, which recreates the session as NEW with an
\* empty transcript and a freshly built chain; no other state or transition
\* is reachable.
C15_SessionLifeCycle ==
    []LifeCycleStates /\ [][LifeCycleSteps]_vars

\* C16 (as claimed): the prior transcript placed into the prompt of a turn
\* is bounded to the most recent max_conversation_history turns (a user and
\* an assistant entry each), however many turns the session has accumulated:
\* so is what a session with no turn in progress would give its next turn.
C16_PromptHistoryBounded ==
    \A sid \in SessionIds :
        (\A c \in Calls : session_id[c] = sid => ~InFlight(c))
            => Len(load_memory_variables(sid)) <= 2 * max_conversation_history

CleanupKeepsSessions ==
    (last' # last /\ "warning" \in DOMAIN last') =>
        /\ memories' = memories
        /\ conversation_chains' = conversation_chains
        /\ messages' = messages
        /\ last'.warning = (Cardinality(DOMAIN memories) > 100)

\* No step takes a session id out of memories.
NoSessionEvicted ==
    /\ DOMAIN memories \subseteq DOMAIN memories'
    /\ Cardinality(DOMAIN memories') >= Cardinality(DOMAIN memories)

ClearedSince(c) ==
    /\ chain[c] # NoChain
    /\ \/ session_id[c] \notin DOMAIN conversation_chains
       \/ conversation_chains[session_id[c]] # chain[c]

\* A call that was still waiting on its generation call when its session was
\* cleared leaves the history of the session as it is when its save_context
\* begins.
ClearedTurnWritesNothing ==
    \A c \in Calls :
        (pc[c] = "generating" /\ ClearedSince(c) /\ pc'[c] = "saving")
            => get_conversation_history(session_id[c])' =
                   get_conversation_history(session_id[c])

\* Once every call of a session is over, a session whose last clear dropped
\* the chain of a turn that got its answer, and for which no turn has been
\* submitted since, has an empty history.
ClearedHistoryStaysEmpty ==
    \A sid \in SessionIds :
        ( /\ sid \in DOMAIN memories
          /\ sid \notin DOMAIN conversation_chains
          /\ \E c \in Calls : session_id[c] = sid /\ Succeeded(c) /\ ClearedSince(c)
          /\ \A c \in Calls : session_id[c] = sid => pc[c] = "done" )
            => get_conversation_history(sid) = <<>>

\* C21 (as claimed): a clear never races with an in-flight turn of the same
\* session: when clear_conversation(S) runs while a chat call for S is still
\* waiting on its generation call, that call does not write into the cleared
\* transcript, and after it completes get_conversation_history(S) is still
\* empty.
C21_ClearNeverRaces ==
    []ClearedHistoryStaysEmpty /\ [][ClearedTurnWritesNothing]_vars

\* Every cached chain has the memory entry of its session id, writes to the
\* memory object stored under that id, and to no other session's.
ChainHasItsMemory ==
    \A sid \in DOMAIN conversation_chains :
        /\ sid \in DOMAIN memories
        /\ memories[sid] \in DOMAIN messages
        /\ conversation_chains[sid].memory = memories[sid]
        /\ \A other \in DOMAIN memories \ {sid} :
               conversation_chains[sid].memory # memories[other]

\* The history of an id that has no memory entry is the empty list.
UnknownHistoryEmpty ==
    \A sid \in SessionIds :
        sid \notin DOMAIN memories => get_conversation_history(sid) = <<>>

\* GET /conversation/{sid} creates no memory, no chain and no message.
GetCreatesNothing ==
    \A sid \in KnownIds :
        GetConversation(sid)
            => UNCHANGED <<memories, conversation_chains, messages>>

\* C22: in every reachable state each session id that has a cached chain
\* also has a memory entry, and the chain writes to exactly the memory object
\* stored under the same id (never another session's); the history of an
\* unknown id is the empty list and asking for it creates no entry.
C22_ChainBoundToItsMemory ==
    /\ []ChainHasItsMemory
    /\ []UnknownHistoryEmpty
    /\ [][GetCreatesNothing]_vars

\* C22 witness: a session was cleared and then chatted to again, so that its
\* cached chain was rebuilt by a later call on the memory the first call
\* allocated, while another id a client knows has no memory entry.
C22_Witness ==
    \E sid \in DOMAIN conversation_chains, unknown \in KnownIds :
        /\ lifecycle[sid] # "intact"
        /\ conversation_chains[sid].id # memories[sid]
        /\ conversation_chains[sid].memory = memories[sid]
        /\ unknown \notin DOMAIN memories
        /\ get_conversation_history(unknown) = <<>>

====
